---- MODULE Spec2Model ----
(***************************************************************************)
(* Model of the sitemap-merge worker (src/src/index.ts,                    *)
(* src/src/url-transformer.ts, src/src/sitemap-builder.ts).                *)
(*                                                                         *)
(* Strings.  A JavaScript string is modelled as a sequence of tokens, a    *)
(* token being an indivisible run of characters ("https://", a host name,  *)
(* "/", a path segment, "?", "#").  The token alphabet is prefix-free and  *)
(* no two tokens differ by letter case only, so that equality, startsWith, *)
(* endsWith, includes, slice and the two string orders (code units and the *)
(* collation used by localeCompare) are decided on the token sequences     *)
(* exactly as they are decided on the characters.                          *)
(***************************************************************************)
EXTENDS Integers, Sequences, FiniteSets, TLC

\* ---------------------------------------------------------------- strings

StartsWith(s, p) == Len(p) <= Len(s) /\ SubSeq(s, 1, Len(p)) = p

EndsWith(s, p) == Len(p) <= Len(s) /\ SubSeq(s, Len(s) - Len(p) + 1, Len(s)) = p

Includes(s, p) == \E i \in 1..(Len(s) - Len(p) + 1) : SubSeq(s, i, i + Len(p) - 1) = p

\* String.prototype.replace(p, ''): the first occurrence of p is removed.
RemoveFirst(s, p) ==
  IF ~Includes(s, p) THEN s
  ELSE LET i == CHOOSE k \in 1..(Len(s) - Len(p) + 1) :
                  /\ SubSeq(s, k, k + Len(p) - 1) = p
                  /\ \A j \in 1..(k - 1) : SubSeq(s, j, j + Len(p) - 1) # p
       IN  SubSeq(s, 1, i - 1) \o SubSeq(s, i + Len(p), Len(s))

\* s.slice(0, -1)
DropLast(s) == SubSeq(s, 1, Len(s) - 1)

\* The least index of s holding a token of set, or Len(s) + 1.
FirstIndex(s, set) ==
  IF \E i \in 1..Len(s) : s[i] \in set
  THEN CHOOSE i \in 1..Len(s) : s[i] \in set /\ \A j \in 1..(i - 1) : s[j] \notin set
  ELSE Len(s) + 1

\* ---------------------------------------------------------------- domains

WWW_DOMAIN == "www.urbanpubsandbars.com"

MAIN_DOMAIN == "urbanpubsandbars.com"

CITY_SUBDOMAIN == "city.urbanpubsandbars.com"

CAREERS_SUBDOMAIN == "careers.urbanpubsandbars.com"

OTHER_DOMAIN == "other.example"

\* The bare domain in place of the www one.
BASE_URL_NoWww == <<"https://", MAIN_DOMAIN>>

BASE_URL == <<"https://", WWW_DOMAIN>>

Schemes == {"https://", "http://"}

Hosts == {WWW_DOMAIN, MAIN_DOMAIN, CITY_SUBDOMAIN, CAREERS_SUBDOMAIN, OTHER_DOMAIN}

\* ---------------------------------------------------------------- new URL()

\* What `new URL(s)` throws on.
BadUrl == [ok |-> FALSE, protocol |-> "", hostname |-> "", pathname |-> <<>>,
           search |-> <<>>, hash |-> <<>>]

\* new URL(s): scheme, host, then the path up to the first "?" or "#", the
\* query up to the first "#", the fragment.  An empty path reads back as "/";
\* an empty query or fragment reads back as "".
ParseUrl(s) ==
  IF Len(s) < 2 THEN BadUrl
  ELSE
    LET rest   == SubSeq(s, 3, Len(s))
        q      == FirstIndex(rest, {"?", "#"})
        h      == FirstIndex(rest, {"#"})
        path   == SubSeq(rest, 1, q - 1)
        search == IF q <= Len(rest) /\ rest[q] = "?" THEN SubSeq(rest, q, h - 1) ELSE <<>>
        hash   == SubSeq(rest, h, Len(rest))
    IN  IF s[1] \in Schemes /\ s[2] \in Hosts /\ (path = <<>> \/ path[1] = "/")
        THEN [ok |-> TRUE, protocol |-> s[1], hostname |-> s[2],
              pathname |-> IF path = <<>> THEN <<"/">> ELSE path,
              search |-> IF Len(search) = 1 THEN <<>> ELSE search,
              hash |-> IF Len(hash) = 1 THEN <<>> ELSE hash]
        ELSE BadUrl

\* URL.prototype.toString()
Href(u) == <<u.protocol, u.hostname>> \o u.pathname \o u.search \o u.hash

\* ---------------------------------------------------------------- entries

NoMeta == "none"

\* A SitemapUrl: loc and its optional lastmod/changefreq/priority (one value).
Entry(loc, meta) == [loc |-> loc, meta |-> meta]

\* ---------------------------------------------------------------- transformer

\* parseMappings: the parts "pathPrefix:subdomain" of PATH_MAPPINGS, already
\* split at the commas and at the colon; a part with an empty side is dropped.
parseMappings(pathMappings) ==
  LET kept == SelectSeq(pathMappings, LAMBDA part : part[1] # "" /\ part[2] # "")
  IN  [i \in 1..Len(kept) |-> [pathPrefix |-> kept[i][1], subdomain |-> kept[i][2]]]

\* new SubdomainTransformer(pathMappings): the mappings are stored; the
\* domains are the four readonly fields.
SubdomainTransformer(pathMappings) == [mappings |-> parseMappings(pathMappings)]

\* transformWithPrefix: https://{newHostname}/{pathPrefix}{pathname} + search + hash
TransformWithPrefix(urlObj, newHostname, pathPrefix) ==
  LET newPath        == <<"/", pathPrefix>> \o urlObj.pathname
      transformedUrl == ParseUrl(<<"https://", newHostname>> \o newPath)
  IN  Href([transformedUrl EXCEPT !.search = urlObj.search, !.hash = urlObj.hash])

Thrown == [ok |-> FALSE, loc |-> <<>>]

Returned(loc) == [ok |-> TRUE, loc |-> loc]

\* validateTransformation: throws unless the result's hostname is the www domain.
ValidateTransformation(transformed, original) ==
  LET transformedUrl == ParseUrl(transformed)
  IN  IF ~transformedUrl.ok THEN Thrown
      ELSE IF transformedUrl.hostname # WWW_DOMAIN THEN Thrown
      ELSE IF transformedUrl.hostname \in {CITY_SUBDOMAIN, CAREERS_SUBDOMAIN} THEN Thrown
      ELSE Returned(transformed)

GetSourceDomain(url) ==
  LET urlObj == ParseUrl(url)
  IN  IF ~urlObj.ok THEN "unknown"
      ELSE IF urlObj.hostname = WWW_DOMAIN \/ urlObj.hostname = MAIN_DOMAIN THEN "main"
      ELSE IF urlObj.hostname = CITY_SUBDOMAIN THEN "city"
      ELSE IF urlObj.hostname = CAREERS_SUBDOMAIN THEN "careers"
      ELSE "unknown"

TransformUrl(url, sourceDomain) ==
  LET urlObj == ParseUrl(url)
  IN  IF ~urlObj.ok THEN Thrown
      ELSE IF urlObj.hostname = WWW_DOMAIN THEN Returned(url)
      ELSE IF urlObj.hostname = MAIN_DOMAIN
        THEN Returned(Href([urlObj EXCEPT !.hostname = WWW_DOMAIN]))
      ELSE IF sourceDomain = "main" /\ urlObj.hostname # WWW_DOMAIN
        THEN Returned(Href([urlObj EXCEPT !.hostname = WWW_DOMAIN]))
      ELSE IF urlObj.hostname = CITY_SUBDOMAIN
        THEN ValidateTransformation(
               TransformWithPrefix(urlObj, WWW_DOMAIN, "city-by-urban"), url)
      ELSE IF urlObj.hostname = CAREERS_SUBDOMAIN
        THEN IF urlObj.pathname = <<"/">> \/ urlObj.pathname = <<>>
             THEN ValidateTransformation(
                    Href([ParseUrl(<<"https://", WWW_DOMAIN, "/", "work-with-us">>)
                            EXCEPT !.search = urlObj.search, !.hash = urlObj.hash]), url)
             ELSE ValidateTransformation(
                    TransformWithPrefix(urlObj, WWW_DOMAIN, "work-with-us"), url)
      ELSE IF sourceDomain = "main"
        THEN Returned(Href([urlObj EXCEPT !.hostname = WWW_DOMAIN]))
      ELSE Returned(url)

\* ---------------------------------------------------------------- index.ts: paths

PROTECTED_PATHS ==
  << <<"/">>,
     <<"/", "city-by-urban">>,
     <<"/", "venues">>,
     <<"/", "private-hire">>,
     <<"/", "whats-on">>,
     <<"/", "christmas">>,
     <<"/", "bookings">>,
     <<"/", "contact">> >>

PROTECTED_PATH_PATTERNS == << <<"/", "bookings", "/", "all-sites">> >>

isProtectedPath(path) == \E i \in 1..Len(PROTECTED_PATHS) : PROTECTED_PATHS[i] = path

matchesProtectedPattern(path) ==
  \E i \in 1..Len(PROTECTED_PATH_PATTERNS) : Includes(path, PROTECTED_PATH_PATTERNS[i])

isRootUrl(url, path) ==
  \/ path = <<"/">>
  \/ path = <<>>
  \/ url = BASE_URL
  \/ url = BASE_URL \o <<"/">>

\* ---------------------------------------------------------------- fetchSitemap

Rejected(reason) == [status |-> "rejected", reason |-> reason, value |-> <<>>]

Fulfilled(value) == [status |-> "fulfilled", reason |-> "", value |-> value]

\* The filter of fetchSitemap: keep the entries whose hostname is the www domain.
FetchKeeps(url, source) ==
  LET urlObj == ParseUrl(url.loc)
  IN  IF ~urlObj.ok THEN FALSE
      ELSE LET isValid == urlObj.hostname = WWW_DOMAIN
           IN  IF isValid /\ isRootUrl(url.loc, urlObj.pathname) THEN TRUE ELSE isValid

\* fetchSitemap on what the upstream answers: a transport error, a non-ok
\* status or a document that fails to parse rejects; so does any entry whose
\* transformation throws; otherwise the transformed entries that pass the
\* filter are returned.
FetchSitemap(answer, source) ==
  IF answer.kind # "ok" THEN Rejected(answer.kind)
  ELSE LET urls == answer.urls
           t(i) == TransformUrl(urls[i].loc, GetSourceDomain(urls[i].loc))
       IN  IF \E i \in 1..Len(urls) : ~t(i).ok THEN Rejected("transform")
           ELSE LET transformedUrls == [i \in 1..Len(urls) |-> [urls[i] EXCEPT !.loc = t(i).loc]]
                IN  Fulfilled(SelectSeq(transformedUrls, LAMBDA u : FetchKeeps(u, source)))

\* ---------------------------------------------------------------- removeDuplicateMainSiteUrls

CITY_PREFIX == <<"/", "city-by-urban">>

\* The path of a /city-by-urban/ entry with the prefix removed.
CityPathOf(url) == RemoveFirst(ParseUrl(url.loc).pathname, CITY_PREFIX)

\* Does the first loop add this entry's stripped path to cityPaths?
TracksCityPath(url) ==
  LET urlObj == ParseUrl(url.loc)
  IN  /\ urlObj.ok
      /\ StartsWith(urlObj.pathname, CITY_PREFIX \o <<"/">>)
      /\ ~isProtectedPath(CityPathOf(url))

cityPathsOf(urls) == { CityPathOf(urls[i]) : i \in { j \in 1..Len(urls) : TracksCityPath(urls[j]) } }

\* cityUrlsMap.get(path): the last entry that set the key.
cityUrlsMapGet(urls, path) ==
  LET hits == { j \in 1..Len(urls) : TracksCityPath(urls[j]) /\ CityPathOf(urls[j]) = path }
  IN  urls[CHOOSE j \in hits : \A k \in hits : k <= j]

\* The filter without the test of the protected patterns.
DedupKeeps_NoPatternCheck(urls, url) ==
  LET urlObj == ParseUrl(url.loc)
      path   == urlObj.pathname
  IN  IF ~urlObj.ok THEN TRUE
      ELSE IF StartsWith(path, CITY_PREFIX \o <<"/">>) THEN TRUE
      ELSE IF isRootUrl(url.loc, path) THEN TRUE
      ELSE IF isProtectedPath(path) THEN TRUE
      ELSE IF path \in cityPathsOf(urls) THEN FALSE
      ELSE TRUE

\* The predicate of urls.filter(...): TRUE keeps the entry.
DedupKeeps(urls, url) ==
  LET urlObj == ParseUrl(url.loc)
      path   == urlObj.pathname
  IN  IF ~urlObj.ok THEN TRUE
      ELSE IF StartsWith(path, CITY_PREFIX \o <<"/">>) THEN TRUE
      ELSE IF isRootUrl(url.loc, path) THEN TRUE
      ELSE IF isProtectedPath(path) THEN TRUE
      ELSE IF matchesProtectedPattern(path) THEN TRUE
      ELSE IF path \in cityPathsOf(urls) THEN FALSE
      ELSE TRUE

\* The function returning the kept entries with their loc only.
removeDuplicateMainSiteUrls_LocOnly(urls, trackRemovals) ==
  LET filtered == SelectSeq(urls, LAMBDA u : DedupKeeps(urls, u))
      gone     == SelectSeq(urls, LAMBDA u : ~DedupKeeps(urls, u))
      removed  == [i \in 1..Len(gone) |->
                     [removed |-> gone[i].loc,
                      kept    |-> cityUrlsMapGet(urls, ParseUrl(gone[i].loc).pathname).loc,
                      reason  |-> "Duplicate: city version exists"]]
  IN  [urls |-> [i \in 1..Len(filtered) |-> Entry(filtered[i].loc, NoMeta)],
       removedUrls |-> IF trackRemovals THEN removed ELSE <<>>]

removeDuplicateMainSiteUrls(urls, trackRemovals) ==
  LET filtered == SelectSeq(urls, LAMBDA u : DedupKeeps(urls, u))
      gone     == SelectSeq(urls, LAMBDA u : ~DedupKeeps(urls, u))
      removed  == [i \in 1..Len(gone) |->
                     [removed |-> gone[i].loc,
                      kept    |-> cityUrlsMapGet(urls, ParseUrl(gone[i].loc).pathname).loc,
                      reason  |-> "Duplicate: city version exists"]]
  IN  [urls |-> filtered, removedUrls |-> IF trackRemovals THEN removed ELSE <<>>]

\* ---------------------------------------------------------------- validateUrlsAreWwwOnly

subdomainDomains == {CITY_SUBDOMAIN, CAREERS_SUBDOMAIN}

IsWwwOnly(url) ==
  LET urlObj == ParseUrl(url.loc)
  IN  IF ~urlObj.ok THEN FALSE
      ELSE IF urlObj.hostname # WWW_DOMAIN THEN FALSE
      ELSE IF \/ urlObj.pathname = <<"/">>
              \/ urlObj.pathname = <<>>
              \/ url.loc = <<"https://", WWW_DOMAIN>>
              \/ url.loc = <<"https://", WWW_DOMAIN, "/">>
        THEN TRUE
      ELSE IF \E subdomain \in subdomainDomains : Includes(url.loc, <<subdomain>>) THEN FALSE
      ELSE TRUE

validateUrlsAreWwwOnly(urls) ==
  [valid   |-> SelectSeq(urls, LAMBDA u : IsWwwOnly(u)),
   invalid |-> SelectSeq(urls, LAMBDA u : ~IsWwwOnly(u))]

\* ---------------------------------------------------------------- protected-path completion

\* normalizePath of generateMergedSitemap: one trailing slash removed, root kept.
normalizePath(pathname) ==
  IF pathname = <<"/">> \/ pathname = <<>> THEN <<"/">>
  ELSE IF EndsWith(pathname, <<"/">>) THEN DropLast(pathname) ELSE pathname

\* The test of both loops for "the main-site version of path": normalized
\* path equal, www hostname, and no '/city-by-urban' anywhere in loc.
IsMainVersion(u, path) ==
  LET urlObj == ParseUrl(u.loc)
  IN  /\ urlObj.ok
      /\ normalizePath(urlObj.pathname) = normalizePath(path)
      /\ urlObj.hostname = WWW_DOMAIN
      /\ ~Includes(u.loc, CITY_PREFIX)

\* valid.some(...) of the first loop, with its catch branch.
MainExists(valid, path) ==
  \E k \in 1..Len(valid) :
    IF ParseUrl(valid[k].loc).ok THEN IsMainVersion(valid[k], path)
    ELSE normalizePath(BASE_URL \o path) = normalizePath(valid[k].loc)

\* First loop, from PROTECTED_PATHS[i] on: unshift the missing main versions.
RECURSIVE EnsureMainVersions(_, _)
EnsureMainVersions(valid, i) ==
  IF i > Len(PROTECTED_PATHS) THEN valid
  ELSE LET path == PROTECTED_PATHS[i]
       IN  EnsureMainVersions(
             IF MainExists(valid, path) THEN valid
             ELSE <<Entry(BASE_URL \o path, NoMeta)>> \o valid,
             i + 1)

\* No protected path gets a /city-by-urban version.
cityProtectedPaths_None == <<>>

cityProtectedPaths == SelectSeq(PROTECTED_PATHS, LAMBDA p : p # CITY_PREFIX)

\* valid.some(...) of the second loop, with its catch branch.
CityExists(valid, path) ==
  \E k \in 1..Len(valid) :
    LET urlObj == ParseUrl(valid[k].loc)
    IN  IF urlObj.ok THEN normalizePath(urlObj.pathname) = normalizePath(CITY_PREFIX \o path)
        ELSE normalizePath(valid[k].loc) = normalizePath(BASE_URL \o CITY_PREFIX \o path)

\* valid.findIndex(...): the first main version of path, 0 if none (-1 in the code).
MainIndex(valid, path) ==
  IF \E k \in 1..Len(valid) : IsMainVersion(valid[k], path)
  THEN CHOOSE k \in 1..Len(valid) :
         IsMainVersion(valid[k], path) /\ \A j \in 1..(k - 1) : ~IsMainVersion(valid[j], path)
  ELSE 0

\* Second loop: splice the missing city version in after the main version,
\* or push it.
RECURSIVE EnsureCityVersions(_, _)
EnsureCityVersions(valid, i) ==
  IF i > Len(cityProtectedPaths) THEN valid
  ELSE LET path      == cityProtectedPaths[i]
           cityUrl   == Entry(BASE_URL \o CITY_PREFIX \o path, NoMeta)
           mainIndex == MainIndex(valid, path)
       IN  EnsureCityVersions(
             IF CityExists(valid, path) THEN valid
             ELSE IF mainIndex >= 1
               THEN SubSeq(valid, 1, mainIndex) \o <<cityUrl>>
                      \o SubSeq(valid, mainIndex + 1, Len(valid))
               ELSE Append(valid, cityUrl),
             i + 1)

\* ---------------------------------------------------------------- sitemap-builder.ts

MAX_URLS_PER_SITEMAP == 50000

\* normalizeUrl: the key removeDuplicates compares.
normalizeUrl(url) ==
  LET urlObj == ParseUrl(url)
  IN  IF ~urlObj.ok THEN url
      ELSE IF urlObj.pathname = <<"/">> \/ urlObj.pathname = <<>> THEN url
      ELSE IF EndsWith(urlObj.pathname, <<"/">>)
        THEN Href([urlObj EXCEPT !.pathname = DropLast(urlObj.pathname)])
      ELSE url

\* removeDuplicates: keep the first entry of each normalizeUrl key.
removeDuplicates(urls) ==
  LET first(i) == \A j \in 1..(i - 1) : normalizeUrl(urls[j].loc) # normalizeUrl(urls[i].loc)
      keep     == { i \in 1..Len(urls) : first(i) }
      RECURSIVE pick(_)
      pick(i)  == IF i > Len(urls) THEN <<>>
                  ELSE (IF i \in keep THEN <<urls[i]>> ELSE <<>>) \o pick(i + 1)
  IN  pick(1)

\* The tokens in ascending order of the root collation that localeCompare
\* applies: punctuation ('?' < '/' < '#') before letters, letters compared
\* without case first ("www..." < "Zoo"), canonically equivalent strings
\* (e-acute precomposed and decomposed) equal.
CollationOrder ==
  << {"?"}, {"/"}, {"#"}, {"all-sites"}, {"bookings"}, {"caf\\u00E9", "cafe\\u0301"},
     {"careers.urbanpubsandbars.com"}, {"christmas"}, {"city-by-urban"},
     {"city.urbanpubsandbars.com"}, {"contact"}, {"fleets"}, {"http://"}, {"https://"},
     {"other.example"}, {"private-hire"}, {"urbanpubsandbars.com"}, {"venues"},
     {"whats-on"}, {"work-with-us"}, {"www.urbanpubsandbars.com"}, {"Zoo"} >>

CollationRank(t) == CHOOSE i \in 1..Len(CollationOrder) : t \in CollationOrder[i]

\* a.localeCompare(b): negative, zero or positive.
RECURSIVE localeCompare(_, _)
localeCompare(a, b) ==
  IF a = <<>> /\ b = <<>> THEN 0
  ELSE IF a = <<>> THEN -1
  ELSE IF b = <<>> THEN 1
  ELSE IF Head(a) = Head(b) THEN localeCompare(Tail(a), Tail(b))
  ELSE IF CollationRank(Head(a)) = CollationRank(Head(b)) THEN localeCompare(Tail(a), Tail(b))
  ELSE IF CollationRank(Head(a)) < CollationRank(Head(b)) THEN -1 ELSE 1

\* Array.prototype.sort with the comparator of buildSitemapXml (a stable sort).
RECURSIVE SortByLoc(_)
SortByLoc(urls) ==
  IF urls = <<>> THEN <<>>
  ELSE LET sorted == SortByLoc(DropLast(urls))
           x      == urls[Len(urls)]
           before == { i \in 1..Len(sorted) : localeCompare(sorted[i].loc, x.loc) <= 0 }
           n      == Cardinality(before)
       IN  SubSeq(sorted, 1, n) \o <<x>> \o SubSeq(sorted, n + 1, Len(sorted))

\* urls.slice(start, end), kept as the span of positions it copies: the
\* entries from position start + 1 to position end, or to the last one.
Slice(urls, start, end) ==
  [from |-> start + 1, to |-> IF end < Len(urls) THEN end ELSE Len(urls)]

\* The loop of buildSitemapIndex that cuts urls into chunks, from offset i on.
RECURSIVE Chunks(_, _)
Chunks(urls, i) ==
  IF i < Len(urls)
  THEN <<Slice(urls, i, i + MAX_URLS_PER_SITEMAP)>> \o Chunks(urls, i + MAX_URLS_PER_SITEMAP)
  ELSE <<>>

\* buildSitemapIndex: one <sitemap> reference per chunk.
buildSitemapIndex(urls) ==
  LET chunks == Chunks(urls, 0)
  IN  [kind |-> "sitemapindex",
       urls |-> [i \in 1..Len(chunks) |->
                   Entry(<<"https://", WWW_DOMAIN, "/", "sitemap-", ToString(i), ".xml">>,
                         NoMeta)]]

\* The size test with >= in place of >.
BuildDocument_AtLimit(sortedUrls) ==
  IF Len(sortedUrls) >= MAX_URLS_PER_SITEMAP THEN buildSitemapIndex(sortedUrls)
  ELSE [kind |-> "urlset", urls |-> sortedUrls]

\* buildSitemapXml after the sort: an index above the limit, else a urlset.
BuildDocument(sortedUrls) ==
  IF Len(sortedUrls) > MAX_URLS_PER_SITEMAP THEN buildSitemapIndex(sortedUrls)
  ELSE [kind |-> "urlset", urls |-> sortedUrls]

\* buildSitemapXml without the sort.
buildSitemapXml_NoSort(urls) ==
  IF Len(removeDuplicates(urls)) > MAX_URLS_PER_SITEMAP
  THEN buildSitemapIndex(removeDuplicates(urls))
  ELSE [kind |-> "urlset", urls |-> removeDuplicates(urls)]

buildSitemapXml(urls) == BuildDocument(SortByLoc(removeDuplicates(urls)))

\* ---------------------------------------------------------------- generateMergedSitemap

Failed(error) == [ok |-> FALSE, error |-> error, doc |-> [kind |-> "none", urls |-> <<>>]]

Succeeded(doc) == [ok |-> TRUE, error |-> "", doc |-> doc]

Sources == <<"main", "city", "careers">>

\* allUrls: the values of the fulfilled fetches, main then city then careers.
CollectAll(settled) ==
  (IF settled["main"].status = "fulfilled" THEN settled["main"].value ELSE <<>>)
    \o (IF settled["city"].status = "fulfilled" THEN settled["city"].value ELSE <<>>)
    \o (IF settled["careers"].status = "fulfilled" THEN settled["careers"].value ELSE <<>>)

\* Promise.all in place of Promise.allSettled: one rejection rejects all.
generateMergedSitemap_FailFast(settled) ==
  IF \E s \in DOMAIN settled : settled[s].status = "rejected"
  THEN Failed("All sitemap sources failed")
  ELSE LET allUrls == CollectAll(settled)
           valid0  == validateUrlsAreWwwOnly(removeDuplicateMainSiteUrls(allUrls, FALSE).urls).valid
           valid   == EnsureCityVersions(EnsureMainVersions(valid0, 1), 1)
       IN  IF Len(allUrls) = 0 THEN Failed("All sitemap sources failed")
           ELSE Succeeded(buildSitemapXml(valid))

\* Without the throw on an empty allUrls.
generateMergedSitemap_NoEmptyCheck(settled) ==
  LET valid0 == validateUrlsAreWwwOnly(
                  removeDuplicateMainSiteUrls(CollectAll(settled), FALSE).urls).valid
      valid  == EnsureCityVersions(EnsureMainVersions(valid0, 1), 1)
  IN  Succeeded(buildSitemapXml(valid))

\* generateMergedSitemap from the completion loops on: the final test and
\* the build.
MergeValid(valid) ==
  IF Len(valid) = 0 THEN Failed("No valid URLs remaining after validation")
  ELSE Succeeded(buildSitemapXml(valid))

\* generateMergedSitemap from the test of allUrls on.
MergeAll(allUrls) ==
  IF Len(allUrls) = 0 THEN Failed("All sitemap sources failed")
  ELSE MergeValid(
         EnsureCityVersions(
           EnsureMainVersions(
             validateUrlsAreWwwOnly(removeDuplicateMainSiteUrls(allUrls, FALSE).urls).valid,
             1),
           1))

\* generateMergedSitemap once Promise.allSettled has resolved.
generateMergedSitemap(settled) == MergeAll(CollectAll(settled))

\* ---------------------------------------------------------------- inputs

W == WWW_DOMAIN

\* Entries a main-site sitemap may list.
MainPool ==
  { Entry(<<"https://", W, "/">>, NoMeta),
    Entry(<<"https://", W>>, "2024-01-01"),
    Entry(<<"https://", W, "/", "?", CITY_SUBDOMAIN>>, NoMeta),
    Entry(<<"https://", W, "/", "venues", "/", "fleets">>, NoMeta),
    Entry(<<"https://", W, "/", "venues", "/", "fleets", "?", CAREERS_SUBDOMAIN>>, NoMeta),
    Entry(<<"http://", W, "/", "venues", "/", "fleets">>, "2024-01-01"),
    Entry(<<"https://", W, "/", "venues", "/">>, "2024-01-01"),
    Entry(<<"https://", W, "/", "Zoo">>, NoMeta),
    Entry(<<"https://", MAIN_DOMAIN, "/", "contact">>, NoMeta),
    Entry(<<"https://", W, "/", "bookings", "/", "all-sites">>, NoMeta),
    Entry(<<"https://", OTHER_DOMAIN, "/", "fleets">>, NoMeta),
    Entry(<<"fleets">>, NoMeta) }

\* Entries the city sitemap may list.
CityPool ==
  { Entry(<<"https://", CITY_SUBDOMAIN, "/">>, NoMeta),
    Entry(<<"https://", CITY_SUBDOMAIN, "/", "venues", "/", "fleets">>, "2024-01-01"),
    Entry(<<"https://", CITY_SUBDOMAIN, "/", "venues", "/", "fleets", "?", CAREERS_SUBDOMAIN>>,
          NoMeta),
    Entry(<<"https://", CITY_SUBDOMAIN, "/", "venues">>, NoMeta),
    Entry(<<"https://", CITY_SUBDOMAIN, "/", "bookings", "/", "all-sites">>, NoMeta) }

\* Entries the careers sitemap may list.
CareersPool ==
  { Entry(<<"https://", CAREERS_SUBDOMAIN, "/">>, NoMeta),
    Entry(<<"https://", CAREERS_SUBDOMAIN, "/", "fleets", "/">>, NoMeta),
    Entry(<<"https://", CAREERS_SUBDOMAIN, "/", "venues", "/", "fleets", "#", "fleets">>,
          NoMeta) }

Pool(source) ==
  CASE source = "main" -> MainPool
    [] source = "city" -> CityPool
    [] OTHER -> CareersPool

SourceNames == {"main", "city", "careers"}

\* How an upstream fetch fails: the fetch throws, the status is not ok, or
\* parseSitemap throws.
FailureKinds == {"transport", "http", "parse"}

Answer(kind, urls) == [kind |-> kind, urls |-> urls]

\* At most MaxEntries entries over the three upstream sitemaps.
MaxEntries == 2

AnswersOfLen(source, k) ==
  { Answer("ok", l) : l \in [1..k -> Pool(source)] }
    \cup (IF k = 0 THEN { Answer(f, <<>>) : f \in FailureKinds } ELSE {})

World(m, c, k) == [s \in SourceNames |-> CASE s = "main" -> m [] s = "city" -> c [] OTHER -> k]

\* What the three upstream sitemaps hold, for the merge pipeline.
RichWorlds ==
  UNION { { World(m, c, k) : m \in AnswersOfLen("main", t[1]),
                             c \in AnswersOfLen("city", t[2]),
                             k \in AnswersOfLen("careers", t[3]) } :
          t \in { u \in (0..MaxEntries) \X (0..MaxEntries) \X (0..MaxEntries) :
                    u[1] + u[2] + u[3] <= MaxEntries } }

\* What they hold while requests are served: each is down or lists one entry.
TinyWorlds ==
  { World(m, c, k) :
      m \in { Answer("http", <<>>),
              Answer("ok", <<Entry(<<"https://", W, "/", "venues", "/", "fleets">>, NoMeta)>>),
              Answer("ok", <<Entry(<<"https://", W, "/", "venues", "/", "fleets", "?",
                                     CAREERS_SUBDOMAIN>>, NoMeta)>>) },
      c \in { Answer("transport", <<>>),
              Answer("ok", <<Entry(<<"https://", CITY_SUBDOMAIN, "/", "venues", "/", "fleets">>,
                                   NoMeta)>>) },
      k \in { Answer("parse", <<>>),
              Answer("ok", <<Entry(<<"https://", CAREERS_SUBDOMAIN, "/">>, NoMeta)>>) } }

\* ---------------------------------------------------------------- state

VARIABLES
  upstream,     \* source (or sitemap URL) -> what its sitemap URL answers now
  cache,        \* the KV namespace: merged_sitemap and merged_sitemap_timestamp
  now,          \* Date.now(), in ms
  pc,           \* request -> where handleSitemapRequest stands
  cached,       \* request -> its local `cached`
  settled,      \* request -> source -> the state of that fetchSitemap promise
  merged,       \* request -> its local `mergedSitemap`
  response,     \* request -> the Response returned
  buildIn,      \* the argument of a direct buildSitemapXml call
  buildOut,     \* its result
  buildCount,   \* the number of entries of its result
  buildChunks,  \* the local `chunks` of buildSitemapIndex in that call
  fnIn,         \* a function called on its own: its name and its argument
  fnOut,        \* the values it returned, one per application
  env,          \* the worker's bindings: webhook secrets, PATH_MAPPINGS
  hook,         \* the webhook request: where handleWebhookInvalidation stands
  parser        \* a parseSitemap call: its runtime, its frames, its outcome

vars == <<upstream, cache, now, pc, cached, settled, merged, response,
          buildIn, buildOut, buildCount, buildChunks,
                 fnIn, fnOut, env, hook, parser>>

NumRequests == 1

Requests == 1..NumRequests

NoDoc == [kind |-> "none", urls |-> <<>>]

NoTimestamp == -1

NoResponse == [status |-> 0, body |-> NoDoc]

Pending == [status |-> "pending", reason |-> "", value |-> <<>>]

CACHE_TTL_MS == 86400000

TickMs == 43200000

MaxTicks == 2

\* A document left in the cache by an earlier run (the sources held the root only).
PreviousDoc ==
  generateMergedSitemap(
    [s \in SourceNames |->
       IF s = "main" THEN Fulfilled(<<Entry(<<"https://", W, "/">>, NoMeta)>>)
       ELSE Rejected("http")]).doc

NoBuild == [called |-> FALSE, urls |-> <<>>, bulk |-> 0]

\* No function is called on its own.
NoCall == [op |-> "none", arg |-> <<>>]

\* One part of PATH_MAPPINGS, "pathPrefix:subdomain".
MappingPart(pathPrefix, subdomain) == <<pathPrefix, subdomain>>

\* The PATH_MAPPINGS of the deployment, split at the commas.
DefaultMappings ==
  << MappingPart("city-by-urban", CITY_SUBDOMAIN), MappingPart("work-with-us", CAREERS_SUBDOMAIN) >>

\* WEBHOOK_SECRET_MAIN, WEBHOOK_SECRET_CITY, WEBHOOK_SECRET_CAREERS: "" when unset.
NoSecrets == [main |-> "", city |-> "", careers |-> ""]

Env(secrets, pathMappings) == [secrets |-> secrets, PATH_MAPPINGS |-> pathMappings]

DefaultEnv == Env(NoSecrets, DefaultMappings)

\* The x-webflow-signature header: the hex HMAC-SHA256 of `body` under `key`,
\* in lower or upper case.  NoSignature: the header is missing; Garbage: it is
\* the HMAC of nothing that was sent.
Signature(key, body, upper) == [key |-> key, body |-> body, upper |-> upper]

NoSignature == Signature("", "", FALSE)

Garbage == Signature("garbage", "", FALSE)

\* No parseSitemap call is modelled.
NoParser ==
  [status |-> "idle", domParser |-> TRUE, stack |-> <<>>, outer |-> FALSE, result |-> <<>>]

\* No webhook request has arrived.
NoHook == [pc |-> "none", signature |-> NoSignature, body |-> "", status |-> 0]

InitIdle ==
  /\ cached = [r \in Requests |-> NoDoc]
  /\ settled = [r \in Requests |-> [s \in SourceNames |-> Pending]]
  /\ merged = [r \in Requests |-> NoDoc]
  /\ response = [r \in Requests |-> NoResponse]
  /\ buildIn = NoBuild
  /\ buildOut = NoDoc
  /\ buildCount = 0
  /\ buildChunks = <<>>
  /\ fnIn = NoCall
  /\ fnOut = <<>>
  /\ env = DefaultEnv
  /\ hook = NoHook
  /\ parser = NoParser

\* The KV namespace at the start: empty, or holding doc with its timestamp,
\* or holding doc alone (the second put of an earlier request never ran).
InitCache(doc) ==
  cache \in { [value |-> NoDoc, timestamp |-> NoTimestamp],
              [value |-> doc, timestamp |-> 0],
              [value |-> doc, timestamp |-> NoTimestamp] }

Init ==
  /\ upstream \in TinyWorlds
  /\ InitCache(PreviousDoc)
  /\ now = 0
  /\ pc = [r \in Requests |-> "start"]
  /\ InitIdle

\* ---------------------------------------------------------------- handleSitemapRequest

Respond(r, status, body) ==
  /\ response' = [response EXCEPT ![r] = [status |-> status, body |-> body]]
  /\ pc' = [pc EXCEPT ![r] = "done"]

StartFetches(r) ==
  /\ pc' = [pc EXCEPT ![r] = "fetching"]
  /\ settled' = [settled EXCEPT ![r] = [s \in SourceNames |-> Pending]]

\* await env.SITEMAP_CACHE.get(KV_CACHE_KEY)
GetCached(r) ==
  /\ pc[r] = "start"
  /\ cached' = [cached EXCEPT ![r] = cache.value]
  /\ IF cache.value # NoDoc
     THEN pc' = [pc EXCEPT ![r] = "getTimestamp"] /\ UNCHANGED settled
     ELSE StartFetches(r)
  /\ UNCHANGED <<upstream, cache, now, merged, response, buildIn, buildOut, buildCount, buildChunks,
                 fnIn, fnOut, env, hook, parser>>

\* await env.SITEMAP_CACHE.get(KV_CACHE_TIMESTAMP_KEY) and the age test
GetTimestamp(r) ==
  /\ pc[r] = "getTimestamp"
  /\ IF cache.timestamp # NoTimestamp /\ now - cache.timestamp < CACHE_TTL_MS
     THEN Respond(r, 200, cached[r]) /\ UNCHANGED settled
     ELSE StartFetches(r) /\ UNCHANGED response
  /\ UNCHANGED <<upstream, cache, now, cached, merged, buildIn, buildOut, buildCount, buildChunks,
                 fnIn, fnOut, env, hook, parser>>

\* One of the three fetchSitemap promises settles.
FetchSettle(r, s) ==
  /\ pc[r] = "fetching"
  /\ settled[r][s] = Pending
  /\ settled' = [settled EXCEPT ![r][s] = FetchSitemap(upstream[s], s)]
  /\ UNCHANGED <<upstream, cache, now, pc, cached, merged, response,
                 buildIn, buildOut, buildCount, buildChunks,
                 fnIn, fnOut, env, hook, parser>>

\* The await of generateMergedSitemap ends with result: the document is
\* kept, or the error is caught and the handler answers 503.
GenerateEnds(r, result) ==
  IF result.ok
  THEN /\ merged' = [merged EXCEPT ![r] = result.doc]
       /\ pc' = [pc EXCEPT ![r] = "putValue"]
       /\ UNCHANGED response
  ELSE /\ Respond(r, 503, NoDoc)
       /\ UNCHANGED merged

\* Promise.allSettled resolves and generateMergedSitemap runs to its end:
\* it returns the document, or throws and the handler answers 503.
Generate(r) ==
  /\ pc[r] = "fetching"
  /\ \A s \in SourceNames : settled[r][s] # Pending
  /\ GenerateEnds(r, generateMergedSitemap(settled[r]))
  /\ UNCHANGED <<upstream, cache, now, cached, settled, buildIn, buildOut, buildCount, buildChunks,
                 fnIn, fnOut, env, hook, parser>>

\* await env.SITEMAP_CACHE.put(KV_CACHE_KEY, mergedSitemap)
PutValue(r) ==
  /\ pc[r] = "putValue"
  /\ cache' = [cache EXCEPT !.value = merged[r]]
  /\ pc' = [pc EXCEPT ![r] = "putTimestamp"]
  /\ UNCHANGED <<upstream, now, cached, settled, merged, response,
                 buildIn, buildOut, buildCount, buildChunks,
                 fnIn, fnOut, env, hook, parser>>

\* The 200 response without the put of the timestamp.
PutTimestamp_NoStore(r) ==
  /\ pc[r] = "putTimestamp"
  /\ Respond(r, 200, merged[r])
  /\ UNCHANGED <<upstream, cache, now, cached, settled, merged,
                 buildIn, buildOut, buildCount, buildChunks,
                 fnIn, fnOut, env, hook, parser>>

\* await env.SITEMAP_CACHE.put(KV_CACHE_TIMESTAMP_KEY, Date.now().toString())
\* and the 200 response
PutTimestamp(r) ==
  /\ pc[r] = "putTimestamp"
  /\ cache' = [cache EXCEPT !.timestamp = now]
  /\ Respond(r, 200, merged[r])
  /\ UNCHANGED <<upstream, now, cached, settled, merged, buildIn, buildOut, buildCount, buildChunks,
                 fnIn, fnOut, env, hook, parser>>

\* A KV get or put throws: the catch block answers 503.
CacheThrows(r) ==
  /\ pc[r] \in {"start", "getTimestamp", "putValue", "putTimestamp"}
  /\ Respond(r, 503, NoDoc)
  /\ UNCHANGED <<upstream, cache, now, cached, settled, merged, buildIn, buildOut, buildCount, buildChunks,
                 fnIn, fnOut, env, hook, parser>>

\* Time passes.
Tick ==
  /\ now < MaxTicks * TickMs
  /\ now' = now + TickMs
  /\ UNCHANGED <<upstream, cache, pc, cached, settled, merged, response,
                 buildIn, buildOut, buildCount, buildChunks,
                 fnIn, fnOut, env, hook, parser>>

Next ==
  \/ \E r \in Requests : GetCached(r)
  \/ \E r \in Requests : GetTimestamp(r)
  \/ \E r \in Requests, s \in SourceNames : FetchSettle(r, s)
  \/ \E r \in Requests : Generate(r)
  \/ \E r \in Requests : PutValue(r)
  \/ \E r \in Requests : PutTimestamp(r)
  \/ \E r \in Requests : CacheThrows(r)
  \/ Tick

Spec == Init /\ [][Next]_vars

\* ---------------------------------------------------------------- handleWebhookInvalidation

\* Request bodies: not JSON; the JSON value null; a site_publish event; a
\* site_publish event without its `payload` member; another event.
WebhookBodies ==
  {"not json", "null", "site_publish", "site_publish without payload", "form_submission"}

\* JSON.parse(body): throws, or gives the payload.
JsonParse(body) ==
  CASE body = "not json" ->
         [ok |-> FALSE, isObject |-> FALSE, triggerType |-> "", hasPayload |-> FALSE]
    [] body = "null" ->
         [ok |-> TRUE, isObject |-> FALSE, triggerType |-> "", hasPayload |-> FALSE]
    [] body = "site_publish" ->
         [ok |-> TRUE, isObject |-> TRUE, triggerType |-> "site_publish", hasPayload |-> TRUE]
    [] body = "site_publish without payload" ->
         [ok |-> TRUE, isObject |-> TRUE, triggerType |-> "site_publish", hasPayload |-> FALSE]
    [] OTHER ->
         [ok |-> TRUE, isObject |-> TRUE, triggerType |-> body, hasPayload |-> TRUE]

\* getWebhookSecret: the first secret that is set, or "" for null.
getWebhookSecret(secrets) ==
  IF secrets.main # "" THEN secrets.main
  ELSE IF secrets.city # "" THEN secrets.city
  ELSE IF secrets.careers # "" THEN secrets.careers
  ELSE ""

\* signature.toLowerCase()
ToLowerCase(signature) == [signature EXCEPT !.upper = FALSE]

\* validateWebhookSignature: the lower-case hex HMAC-SHA256 of the body under
\* the secret equals the lower-cased header.
validateWebhookSignature(requestBody, signature, secretKey) ==
  IF signature = NoSignature THEN FALSE
  ELSE ToLowerCase(Signature(secretKey, requestBody, FALSE)) = ToLowerCase(signature)

\* handleWebhookInvalidation up to the first delete: the status it returns,
\* or 0 when it goes on to delete the keys.
WebhookVerdict(signature, body, secrets) ==
  LET payload == JsonParse(body)
  IN  IF signature = NoSignature THEN 401
      ELSE IF ~payload.ok THEN 400
      ELSE IF ~payload.isObject THEN 500
      ELSE IF payload.triggerType # "site_publish" THEN 400
      ELSE IF ~payload.hasPayload THEN 500
      ELSE IF getWebhookSecret(secrets) = "" THEN 0
      ELSE IF ~validateWebhookSignature(body, signature, getWebhookSecret(secrets)) THEN 401
      ELSE 0

HookUnchanged ==
  UNCHANGED <<upstream, now, pc, cached, settled, merged, response,
              buildIn, buildOut, buildCount, buildChunks, fnIn, fnOut, env, parser>>

HookGoes(verdict) ==
  IF verdict = 0
  THEN hook' = [hook EXCEPT !.pc = "deleteValue"]
  ELSE hook' = [hook EXCEPT !.pc = "done", !.status = verdict]

\* The body is read and the request is checked.
HookVerify ==
  /\ hook.pc = "start"
  /\ HookGoes(WebhookVerdict(hook.signature, hook.body, env.secrets))
  /\ UNCHANGED cache
  /\ HookUnchanged

\* await env.SITEMAP_CACHE.delete(KV_CACHE_KEY)
HookDeleteValue ==
  /\ hook.pc = "deleteValue"
  /\ cache' = [cache EXCEPT !.value = NoDoc]
  /\ hook' = [hook EXCEPT !.pc = "deleteTimestamp"]
  /\ HookUnchanged

\* await env.SITEMAP_CACHE.delete(KV_CACHE_TIMESTAMP_KEY) and the 200 response
HookDeleteTimestamp ==
  /\ hook.pc = "deleteTimestamp"
  /\ cache' = [cache EXCEPT !.timestamp = NoTimestamp]
  /\ hook' = [hook EXCEPT !.pc = "done", !.status = 200]
  /\ HookUnchanged

\* A KV delete throws: the catch block answers 500.
HookThrows ==
  /\ hook.pc \in {"deleteValue", "deleteTimestamp"}
  /\ hook' = [hook EXCEPT !.pc = "done", !.status = 500]
  /\ UNCHANGED cache
  /\ HookUnchanged

\* Keys a secret or a signer may hold.
SecretKeys == {"k1", "k2"}

SecretInputs ==
  { NoSecrets,
    [main |-> "k1", city |-> "", careers |-> ""],
    [main |-> "", city |-> "", careers |-> "k2"],
    [main |-> "k1", city |-> "k2", careers |-> ""] }

SignatureInputs ==
  { NoSignature, Garbage }
    \cup { Signature(k, b, u) : k \in SecretKeys, b \in {"site_publish", "form_submission"},
                                u \in BOOLEAN }

\* A webhook request arrives at a worker whose cache holds a fresh document.
InitHook ==
  /\ upstream = World(Answer("http", <<>>), Answer("http", <<>>), Answer("http", <<>>))
  /\ cache = [value |-> PreviousDoc, timestamp |-> 0]
  /\ now = 0
  /\ pc = [r \in Requests |-> "start"]
  /\ cached = [r \in Requests |-> NoDoc]
  /\ settled = [r \in Requests |-> [s \in SourceNames |-> Pending]]
  /\ merged = [r \in Requests |-> NoDoc]
  /\ response = [r \in Requests |-> NoResponse]
  /\ buildIn = NoBuild
  /\ buildOut = NoDoc
  /\ buildCount = 0
  /\ buildChunks = <<>>
  /\ fnIn = NoCall
  /\ fnOut = <<>>
  /\ env \in { Env(secrets, DefaultMappings) : secrets \in SecretInputs }
  /\ hook \in { [pc |-> "start", signature |-> sig, body |-> b, status |-> 0] :
                  sig \in SignatureInputs, b \in WebhookBodies }
  /\ parser = NoParser

NextHook ==
  \/ HookVerify
  \/ HookDeleteValue
  \/ HookDeleteTimestamp
  \/ HookThrows

SpecHook == InitHook /\ [][NextHook]_vars

\* ---------------------------------------------------------------- the worker under load

\* Sitemap requests the runtime serves at the same time.
NumConcurrent == 2

Concurrent == 1..NumConcurrent

\* The sources before the site is published: the city site is down.
OldWorld ==
  World(Answer("ok", <<Entry(<<"https://", W, "/", "venues", "/", "fleets">>, NoMeta)>>),
        Answer("transport", <<>>),
        Answer("parse", <<>>))

\* The sources after it: the city site lists a page.
NewWorld ==
  World(Answer("ok", <<Entry(<<"https://", W, "/", "venues", "/", "fleets">>, NoMeta)>>),
        Answer("ok", <<Entry(<<"https://", CITY_SUBDOMAIN, "/", "bookings">>, NoMeta)>>),
        Answer("parse", <<>>))

\* The document generateMergedSitemap returns when every fetch sees `world`.
DocOf(world) ==
  generateMergedSitemap([s \in SourceNames |-> FetchSitemap(world[s], s)]).doc

\* The webhook request Webflow sends for a publish, signed with the secret.
PublishHook ==
  [pc |-> "start", signature |-> Signature("k1", "site_publish", FALSE),
   body |-> "site_publish", status |-> 0]

InitWorker ==
  /\ upstream = OldWorld
  /\ cache \in { [value |-> NoDoc, timestamp |-> NoTimestamp],
                 [value |-> PreviousDoc, timestamp |-> 0] }
  /\ now = 0
  /\ pc = [r \in Concurrent |-> "start"]
  /\ cached = [r \in Concurrent |-> NoDoc]
  /\ settled = [r \in Concurrent |-> [s \in SourceNames |-> Pending]]
  /\ merged = [r \in Concurrent |-> NoDoc]
  /\ response = [r \in Concurrent |-> NoResponse]
  /\ buildIn = NoBuild
  /\ buildOut = NoDoc
  /\ buildCount = 0
  /\ buildChunks = <<>>
  /\ fnIn = NoCall
  /\ fnOut = <<>>
  /\ env = Env([main |-> "k1", city |-> "", careers |-> ""], DefaultMappings)
  /\ hook = NoHook
  /\ parser = NoParser

\* The site is published: the sources change and Webflow posts the webhook.
Publish ==
  /\ hook.pc = "none"
  /\ upstream' = NewWorld
  /\ hook' = PublishHook
  /\ UNCHANGED <<cache, now, pc, cached, settled, merged, response,
                 buildIn, buildOut, buildCount, buildChunks, fnIn, fnOut, env, parser>>

NextWorker ==
  \/ \E r \in Concurrent : GetCached(r)
  \/ \E r \in Concurrent : GetTimestamp(r)
  \/ \E r \in Concurrent, s \in SourceNames : FetchSettle(r, s)
  \/ \E r \in Concurrent : Generate(r)
  \/ \E r \in Concurrent : PutValue(r)
  \/ \E r \in Concurrent : PutTimestamp(r)
  \/ \E r \in Concurrent : CacheThrows(r)
  \/ Tick
  \/ Publish
  \/ HookVerify
  \/ HookDeleteValue
  \/ HookDeleteTimestamp
  \/ HookThrows

SpecWorker == InitWorker /\ [][NextWorker]_vars

\* ---------------------------------------------------------------- sitemap-parser.ts

\* An XML document, by what the two parsers see in it: a well-formed urlset
\* with its <url> blocks, a well-formed sitemapindex with the <loc> of its
\* <sitemap> elements, a urlset that is not well-formed (the structural
\* parser yields a parsererror, the <url> blocks are still in the text), or
\* well-formed XML with neither root.  A block without a <loc> has loc <<>>.
Document(kind, blocks, locs) == [kind |-> kind, blocks |-> blocks, locs |-> locs]

Urlset(blocks) == Document("urlset", blocks, <<>>)

SitemapIndex(locs) == Document("sitemapindex", <<>>, locs)

MalformedUrlset(blocks) == Document("malformed", blocks, <<>>)

OtherXml == Document("other", <<>>, <<>>)

\* The entries of the <url> blocks that have a <loc>.
UrlBlocks(doc) == SelectSeq(doc.blocks, LAMBDA b : b.loc # <<>>)

\* parseSitemapWithRegex: [] for a sitemap index, else the <url> blocks the
\* regular expressions match.
parseSitemapWithRegex(doc) ==
  IF doc.kind = "sitemapindex" THEN <<>> ELSE UrlBlocks(doc)

\* What a parseSitemap call ends with.
ParseReturns(urls) == [ok |-> TRUE, urls |-> urls]

ParseThrows == [ok |-> FALSE, urls |-> <<>>]

\* A parseSitemap call in progress: at "parse" it has not looked at its
\* document, at "loop" it is in the for loop over sitemapUrls before the
\* fetch of sitemapUrls[next], at "await" it awaits the recursive call.
Frame(doc) == [doc |-> doc, pc |-> "parse", sitemapUrls |-> <<>>, next |-> 1, allUrls |-> <<>>]

\* The URLs of the sitemap documents; fetchSitemap fetched "root.xml".
SitemapUrls == {"root.xml", "a.xml", "b.xml"}

\* What fetch(sitemapUrl) gives: it throws, the status is not ok, or a document.
FetchThrows == [kind |-> "throws", doc |-> OtherXml]

FetchNotOk == [kind |-> "status", doc |-> OtherXml]

FetchOk(doc) == [kind |-> "ok", doc |-> doc]

Page(name) == Entry(<<"https://", W, "/", name>>, NoMeta)

LeafDocuments ==
  { Urlset(<<Page("venues"), Entry(<<>>, NoMeta), Entry(<<"https://", W, "/", "bookings">>,
                                                        "2024-01-01")>>),
    Urlset(<<Page("contact")>>),
    MalformedUrlset(<<Page("christmas")>>),
    OtherXml }

IndexDocuments ==
  { SitemapIndex(<<>>),
    SitemapIndex(<<"a.xml">>),
    SitemapIndex(<<"a.xml", "b.xml">>),
    SitemapIndex(<<"b.xml", "a.xml", "b.xml">>),
    SitemapIndex(<<"root.xml">>) }

Responses ==
  {FetchThrows, FetchNotOk} \cup { FetchOk(doc) : doc \in LeafDocuments \cup IndexDocuments }

\* The innermost calls of parseSitemap that are kept track of; parser.outer
\* says that there are calls outside of them.
MaxDepth == 4

Inner(stack) ==
  IF Len(stack) > MaxDepth THEN SubSeq(stack, Len(stack) - MaxDepth + 1, Len(stack)) ELSE stack

InitParse ==
  /\ upstream \in { web \in [SitemapUrls -> Responses] : web["root.xml"].kind = "ok" }
  /\ parser \in { [status |-> "running", domParser |-> dom,
                   stack |-> <<Frame(upstream["root.xml"].doc)>>, outer |-> FALSE,
                   result |-> <<>>] :
                  dom \in BOOLEAN }
  /\ cache = [value |-> NoDoc, timestamp |-> NoTimestamp]
  /\ now = 0
  /\ pc = [r \in Requests |-> "start"]
  /\ cached = [r \in Requests |-> NoDoc]
  /\ settled = [r \in Requests |-> [s \in SourceNames |-> Pending]]
  /\ merged = [r \in Requests |-> NoDoc]
  /\ response = [r \in Requests |-> NoResponse]
  /\ buildIn = NoBuild
  /\ buildOut = NoDoc
  /\ buildCount = 0
  /\ buildChunks = <<>>
  /\ fnIn = NoCall
  /\ fnOut = <<>>
  /\ env = DefaultEnv
  /\ hook = NoHook

ParseUnchanged ==
  UNCHANGED <<upstream, cache, now, pc, cached, settled, merged, response,
              buildIn, buildOut, buildCount, buildChunks, fnIn, fnOut, env, hook>>

\* The call on top of the stack.
Top == parser.stack[Len(parser.stack)]

\* The loop without its try/catch: an error of a recursive call ends every
\* call on the stack.
ParseEnds_Propagates(outcome) ==
  IF (Len(parser.stack) = 1 /\ ~parser.outer) \/ ~outcome.ok
  THEN parser' = [parser EXCEPT !.status = IF outcome.ok THEN "returned" ELSE "thrown",
                                !.stack = <<>>,
                                !.result = outcome.urls]
  ELSE parser' = [parser EXCEPT
                    !.stack = [SubSeq(parser.stack, 1, Len(parser.stack) - 1)
                                 EXCEPT ![Len(parser.stack) - 1] =
                                   [@ EXCEPT !.pc = "loop",
                                             !.next = @ + 1,
                                             !.allUrls = @ \o outcome.urls]]]

\* The call on top ends with outcome: the first call hands it to
\* fetchSitemap; a recursive call hands it to the loop of its caller, which
\* appends the entries, or catches the error, and goes on with the next URL.
ParseEnds(outcome) ==
  IF Len(parser.stack) = 1 /\ ~parser.outer
  THEN parser' = [parser EXCEPT !.status = IF outcome.ok THEN "returned" ELSE "thrown",
                                !.stack = <<>>,
                                !.result = outcome.urls]
  ELSE parser' = [parser EXCEPT
                    !.stack = [SubSeq(parser.stack, 1, Len(parser.stack) - 1)
                                 EXCEPT ![Len(parser.stack) - 1] =
                                   [@ EXCEPT !.pc = "loop",
                                             !.next = @ + 1,
                                             !.allUrls = @ \o outcome.urls]]]

\* The top frame with some of its fields changed.
SetTop(frame) == parser' = [parser EXCEPT !.stack[Len(parser.stack)] = frame]

\* parseSitemap up to its loop: without DOMParser the regex parser answers;
\* a parsererror, or a document with neither root, throws; a urlset returns
\* its entries; a sitemap index collects its sitemapUrls.
ParseDocument ==
  /\ parser.status = "running"
  /\ Top.pc = "parse"
  /\ IF ~parser.domParser THEN ParseEnds(ParseReturns(parseSitemapWithRegex(Top.doc)))
     ELSE IF Top.doc.kind = "malformed" THEN ParseEnds(ParseThrows)
     ELSE IF Top.doc.kind = "sitemapindex"
       THEN SetTop([Top EXCEPT !.pc = "loop", !.sitemapUrls = Top.doc.locs])
     ELSE IF Top.doc.kind = "urlset" THEN ParseEnds(ParseReturns(UrlBlocks(Top.doc)))
     ELSE ParseEnds(ParseThrows)
  /\ ParseUnchanged

\* One turn of the loop: fetch(sitemapUrl); a throw or a status that is not
\* ok goes on with the next URL, a document is handed to a recursive call.
FetchReferenced ==
  /\ parser.status = "running"
  /\ Top.pc = "loop"
  /\ Top.next <= Len(Top.sitemapUrls)
  /\ IF upstream[Top.sitemapUrls[Top.next]].kind # "ok"
     THEN SetTop([Top EXCEPT !.next = @ + 1])
     ELSE parser' = [parser EXCEPT
                       !.stack = Inner(Append([parser.stack EXCEPT ![Len(parser.stack)].pc = "await"],
                                              Frame(upstream[Top.sitemapUrls[Top.next]].doc))),
                       !.outer = @ \/ Len(parser.stack) = MaxDepth]
  /\ ParseUnchanged

\* The loop is over: return allUrls.
ReturnAllUrls ==
  /\ parser.status = "running"
  /\ Top.pc = "loop"
  /\ Top.next > Len(Top.sitemapUrls)
  /\ ParseEnds(ParseReturns(Top.allUrls))
  /\ ParseUnchanged

NextParse ==
  \/ ParseDocument
  \/ FetchReferenced
  \/ ReturnAllUrls

SpecParse == InitParse /\ [][NextParse]_vars

\* Every step of parseSitemap that can be taken is taken in the end.
SpecParseFair == SpecParse /\ WF_vars(NextParse)

\* ---------------------------------------------------------------- the merge alone

\* generateMergedSitemap called on what the sources hold: the three fetches
\* are in flight.
InitMerge ==
  /\ upstream \in RichWorlds
  /\ cache = [value |-> NoDoc, timestamp |-> NoTimestamp]
  /\ now = 0
  /\ pc = [r \in Requests |-> IF r = 1 THEN "fetching" ELSE "start"]
  /\ InitIdle

NextMerge ==
  \/ \E s \in SourceNames : FetchSettle(1, s)
  \/ Generate(1)

SpecMerge == InitMerge /\ [][NextMerge]_vars

\* ---------------------------------------------------------------- buildSitemapXml alone

\* Locations handed to buildSitemapXml directly.
BuildPool ==
  { Entry(<<"https://", W, "/">>, NoMeta),
    Entry(<<"https://", W>>, NoMeta),
    Entry(<<"https://", W, "/", "venues">>, NoMeta),
    Entry(<<"https://", W, "/", "venues", "/">>, "2024-01-01"),
    Entry(<<"http://", W, "/", "venues">>, NoMeta),
    Entry(<<"https://", W, "/", "venues", "?", "fleets">>, NoMeta),
    Entry(<<"https://", W, "/", "venues", "#", "fleets">>, NoMeta),
    Entry(<<"https://", W, "/", "venues", "/", "fleets">>, NoMeta),
    Entry(<<"https://", W, "/", "Zoo">>, NoMeta),
    Entry(<<"https://", W, "/", "caf\\u00E9">>, NoMeta),
    Entry(<<"https://", W, "/", "cafe\\u0301">>, NoMeta),
    Entry(<<"https://", W, "/", "city-by-urban", "/", "venues">>, NoMeta) }

MaxBuildLen == 2

\* Lengths around the multiples of the limit, and the 60,001 of the scenario.
MaxBulkChunks == 2

BulkDelta == 1

BulkSizes ==
  { k * MAX_URLS_PER_SITEMAP + d : k \in 1..MaxBulkChunks, d \in (0 - BulkDelta)..BulkDelta }
    \cup { MAX_URLS_PER_SITEMAP + 10001 }

\* A list of n entries already duplicate-free and sorted: entry i stands for
\* the i-th location in sort order.
BulkList(n) == [i \in 1..n |-> Entry(<<"https://", W, "/", ToString(i)>>, NoMeta)]

\* The argument is the short list buildIn.urls, or BulkList(buildIn.bulk).
IsBulk(in) == in.bulk > 0

InitBuild ==
  /\ upstream = World(Answer("http", <<>>), Answer("http", <<>>), Answer("http", <<>>))
  /\ cache = [value |-> NoDoc, timestamp |-> NoTimestamp]
  /\ now = 0
  /\ pc = [r \in Requests |-> "start"]
  /\ cached = [r \in Requests |-> NoDoc]
  /\ settled = [r \in Requests |-> [s \in SourceNames |-> Pending]]
  /\ merged = [r \in Requests |-> NoDoc]
  /\ response = [r \in Requests |-> NoResponse]
  /\ buildIn \in [called : {FALSE},
                  urls : UNION { [1..k -> BuildPool] : k \in 0..MaxBuildLen },
                  bulk : {0}]
                 \cup [called : {FALSE}, urls : {<<>>}, bulk : BulkSizes]
  /\ buildOut = NoDoc
  /\ buildCount = 0
  /\ buildChunks = <<>>
  /\ fnIn = NoCall
  /\ fnOut = <<>>
  /\ env = DefaultEnv
  /\ hook = NoHook
  /\ parser = NoParser

\* buildSitemapXml(urls) on a short list.
Build ==
  /\ ~buildIn.called
  /\ ~IsBulk(buildIn)
  /\ buildIn' = [buildIn EXCEPT !.called = TRUE]
  /\ buildOut' = buildSitemapXml(buildIn.urls)
  /\ buildCount' = Len(buildSitemapXml(buildIn.urls).urls)
  /\ buildChunks' = <<>>
  /\ UNCHANGED <<upstream, cache, now, pc, cached, settled, merged, response,
                 fnIn, fnOut, env, hook, parser>>

\* buildSitemapXml(urls) from the size test on, on a long list that
\* removeDuplicates and the sort leave as it is.  Of a long urlset only the
\* number of entries is kept.
BuildSorted ==
  /\ ~buildIn.called
  /\ IsBulk(buildIn)
  /\ buildIn' = [buildIn EXCEPT !.called = TRUE]
  /\ LET list   == BulkList(buildIn.bulk)
         doc    == BuildDocument(list)
         chunks == IF Len(list) > MAX_URLS_PER_SITEMAP THEN Chunks(list, 0) ELSE <<>>
     IN  /\ buildOut' = [kind |-> doc.kind,
                         urls |-> IF doc.kind = "sitemapindex" THEN doc.urls ELSE <<>>]
         /\ buildCount' = Len(doc.urls)
         /\ buildChunks' = chunks
  /\ UNCHANGED <<upstream, cache, now, pc, cached, settled, merged, response,
                 fnIn, fnOut, env, hook, parser>>

NextBuild == Build \/ BuildSorted

SpecBuild == InitBuild /\ [][NextBuild]_vars

\* ---------------------------------------------------------------- functions alone

\* Paths handed to normalizePath.
PathInputs ==
  { <<>>, <<"/">>, <<"/", "/">>,
    <<"/", "venues">>, <<"/", "venues", "/">>, <<"/", "venues", "/", "/">>,
    <<"/", "venues", "/", "fleets">>, <<"/", "venues", "/", "fleets", "/">>,
    <<"/", "city-by-urban">>, <<"/", "city-by-urban", "/">> }

\* Strings handed to normalizeUrl.
UrlInputs ==
  { <<scheme, W>> \o path \o tail :
      scheme \in {"https://", "http://"},
      path \in PathInputs,
      tail \in { <<>>, <<"?", "fleets">>, <<"#", "contact">> } }
    \cup { <<"venues">>, <<"https://", OTHER_DOMAIN, "/", "venues", "/">> }

\* Locations handed to transformUrl.
TransformInputs ==
  { <<"https://", host>> \o path \o search \o hash :
      host \in Hosts,
      path \in { <<>>, <<"/">>, <<"/", "venues">>, <<"/", "venues", "/">> },
      search \in { <<>>, <<"?", "fleets">> },
      hash \in { <<>>, <<"#", "contact">> } }

\* Values of PATH_MAPPINGS: the deployed one, one with other prefixes, one
\* that maps a further subdomain and has a part without a subdomain.
MappingInputs ==
  { DefaultMappings,
    << MappingPart("venues", CITY_SUBDOMAIN), MappingPart("contact", CAREERS_SUBDOMAIN) >>,
    << MappingPart("city-by-urban", CITY_SUBDOMAIN), MappingPart("whats-on", OTHER_DOMAIN),
       MappingPart("work-with-us", "") >> }

\* Entries handed to removeDuplicateMainSiteUrls.
DedupPool ==
  { Entry(<<"https://", W, "/">>, NoMeta),
    Entry(<<"https://", W, "/", "venues", "/", "fleets">>, NoMeta),
    Entry(<<"https://", W, "/", "venues", "/", "fleets", "/">>, NoMeta),
    Entry(<<"https://", OTHER_DOMAIN, "/", "venues", "/", "fleets">>, "2024-01-01"),
    Entry(<<"https://", W, "/", "venues">>, NoMeta),
    Entry(<<"https://", W, "/", "bookings", "/", "all-sites">>, NoMeta),
    Entry(<<"https://", W, "/", "work-with-us", "/", "venues", "/", "fleets">>, NoMeta),
    Entry(<<"https://", W, "/", "city-by-urban">>, NoMeta),
    Entry(<<"https://", W, "/", "city-by-urban", "/">>, NoMeta),
    Entry(<<"https://", W, "/", "city-by-urban", "/", "venues">>, NoMeta),
    Entry(<<"https://", W, "/", "city-by-urban", "/", "venues", "/", "fleets">>, NoMeta),
    Entry(<<"https://", W, "/", "city-by-urban", "/", "venues", "/", "fleets", "?", "contact">>,
          "2024-01-01"),
    Entry(<<"https://", W, "/", "city-by-urban", "/", "bookings", "/", "all-sites">>, NoMeta),
    Entry(<<"https://", W, "/", "city-by-urban", "/", "work-with-us", "/", "venues", "/", "fleets">>,
          NoMeta),
    Entry(<<"https://", W, "/", "venues", "/">>, NoMeta),
    Entry(<<"https://", W, "/", "city-by-urban", "/", "venues", "/">>, NoMeta),
    Entry(<<"venues">>, NoMeta) }

MaxDedupLen == 3

\* Entries handed to validateUrlsAreWwwOnly.
ValidatePool ==
  { Entry(<<"https://", W, "/">>, NoMeta),
    Entry(<<"https://", W, "/", "?", CITY_SUBDOMAIN>>, NoMeta),
    Entry(<<"https://", W, "/", "venues", "/", "fleets">>, "2024-01-01"),
    Entry(<<"https://", W, "/", "venues", "/", "fleets", "?", CAREERS_SUBDOMAIN>>, NoMeta),
    Entry(<<"http://", W, "/", "venues">>, NoMeta),
    Entry(<<"https://", MAIN_DOMAIN, "/", "venues">>, NoMeta),
    Entry(<<"https://", CITY_SUBDOMAIN, "/", "venues">>, NoMeta),
    Entry(<<"https://", OTHER_DOMAIN, "/">>, NoMeta),
    Entry(<<"venues">>, NoMeta) }

MaxValidateLen == 2

ValidateInputs == UNION { [1..k -> ValidatePool] : k \in 0..MaxValidateLen }

DedupInputs ==
  { [urls |-> l, trackRemovals |-> t] :
      l \in UNION { [1..k -> DedupPool] : k \in 0..MaxDedupLen }, t \in BOOLEAN }

\* How often a function is applied to its own result.
MaxApply == 2

Call(op, arg) == [op |-> op, arg |-> arg]

InitPure ==
  /\ upstream = World(Answer("http", <<>>), Answer("http", <<>>), Answer("http", <<>>))
  /\ cache = [value |-> NoDoc, timestamp |-> NoTimestamp]
  /\ now = 0
  /\ pc = [r \in Requests |-> "start"]
  /\ cached = [r \in Requests |-> NoDoc]
  /\ settled = [r \in Requests |-> [s \in SourceNames |-> Pending]]
  /\ merged = [r \in Requests |-> NoDoc]
  /\ response = [r \in Requests |-> NoResponse]
  /\ buildIn = NoBuild
  /\ buildOut = NoDoc
  /\ buildCount = 0
  /\ buildChunks = <<>>
  /\ hook = NoHook
  /\ parser = NoParser
  /\ fnOut = <<>>
  /\ \/ /\ \/ fnIn \in { Call("normalizePath", x) : x \in PathInputs }
           \/ fnIn \in { Call("normalizeUrl", x) : x \in UrlInputs }
           \/ fnIn \in { Call("removeDuplicateMainSiteUrls", x) : x \in DedupInputs }
           \/ fnIn \in { Call("validateUrlsAreWwwOnly", x) : x \in ValidateInputs }
        /\ env = DefaultEnv
     \/ /\ fnIn \in { Call("transformUrl", x) : x \in TransformInputs }
        /\ env \in { Env(NoSecrets, m) : m \in MappingInputs }

\* The argument of the next application: the input, then the last result.
NextArg == IF fnOut = <<>> THEN fnIn.arg ELSE fnOut[Len(fnOut)]

PureUnchanged ==
  UNCHANGED <<upstream, cache, now, pc, cached, settled, merged, response,
              buildIn, buildOut, buildCount, buildChunks, fnIn, env, hook, parser>>

\* normalizePath(pathname), then normalizePath of the result.
ApplyNormalizePath ==
  /\ fnIn.op = "normalizePath"
  /\ Len(fnOut) < MaxApply
  /\ fnOut' = Append(fnOut, normalizePath(NextArg))
  /\ PureUnchanged

\* normalizeUrl(url), then normalizeUrl of the result.
ApplyNormalizeUrl ==
  /\ fnIn.op = "normalizeUrl"
  /\ Len(fnOut) < MaxApply
  /\ fnOut' = Append(fnOut, normalizeUrl(NextArg))
  /\ PureUnchanged

\* new SubdomainTransformer(env.PATH_MAPPINGS), then transformUrl(url,
\* getSourceDomain(url)) as fetchSitemap calls it; transformUrl reads the
\* four domain fields and never the stored mappings.
ApplyTransformUrl ==
  /\ fnIn.op = "transformUrl"
  /\ fnOut = <<>>
  /\ LET transformer == SubdomainTransformer(env.PATH_MAPPINGS)
     IN  fnOut' = <<TransformUrl(fnIn.arg, GetSourceDomain(fnIn.arg))>>
  /\ PureUnchanged

\* removeDuplicateMainSiteUrls(urls, trackRemovals)
ApplyRemoveDuplicateMainSiteUrls ==
  /\ fnIn.op = "removeDuplicateMainSiteUrls"
  /\ fnOut = <<>>
  /\ fnOut' = <<removeDuplicateMainSiteUrls(fnIn.arg.urls, fnIn.arg.trackRemovals)>>
  /\ PureUnchanged

\* validateUrlsAreWwwOnly(urls)
ApplyValidateUrlsAreWwwOnly ==
  /\ fnIn.op = "validateUrlsAreWwwOnly"
  /\ fnOut = <<>>
  /\ fnOut' = <<validateUrlsAreWwwOnly(fnIn.arg)>>
  /\ PureUnchanged

NextPure ==
  \/ ApplyNormalizePath
  \/ ApplyNormalizeUrl
  \/ ApplyTransformUrl
  \/ ApplyRemoveDuplicateMainSiteUrls
  \/ ApplyValidateUrlsAreWwwOnly

SpecPure == InitPure /\ [][NextPure]_vars

\* ---------------------------------------------------------------- claims

AllSettled(r) == \A s \in SourceNames : settled[r][s] # Pending

\* generateMergedSitemap has returned a document in request r.
Returned1(r) == merged[r] # NoDoc

\* generateMergedSitemap has thrown in request r.
Threw(r) == AllSettled(r) /\ pc[r] = "done" /\ merged[r] = NoDoc

Locs(urls) == { urls[i].loc : i \in 1..Len(urls) }

PathOf(loc) == ParseUrl(loc).pathname

HasLoc(doc, loc) == \E i \in 1..Len(doc.urls) : doc.urls[i].loc = loc

\* (C1) Every entry of a urlset returned by generateMergedSitemap has a
\* location that parses and whose hostname is www.urbanpubsandbars.com.
C1_CanonicalHostname ==
  \A r \in Requests :
    merged[r].kind = "urlset" =>
      \A i \in 1..Len(merged[r].urls) :
        /\ ParseUrl(merged[r].urls[i].loc).ok
        /\ ParseUrl(merged[r].urls[i].loc).hostname = WWW_DOMAIN

\* A returned urlset holding an entry passed through, one transformed from
\* the city subdomain and a synthesized protected path.
C1_Witness ==
  /\ merged[1].kind = "urlset"
  /\ upstream["main"].urls = <<Entry(<<"https://", W, "/", "Zoo">>, NoMeta)>>
  /\ upstream["city"].urls = <<Entry(<<"https://", CITY_SUBDOMAIN, "/", "venues", "/", "fleets">>,
                                     "2024-01-01")>>
  /\ HasLoc(merged[1], <<"https://", W, "/", "Zoo">>)
  /\ HasLoc(merged[1], <<"https://", W, "/", "city-by-urban", "/", "venues", "/", "fleets">>)
  /\ HasLoc(merged[1], <<"https://", W, "/", "christmas">>)

\* (C2) No entry of a returned urlset has a location string that contains
\* city.urbanpubsandbars.com or careers.urbanpubsandbars.com anywhere.
C2_NoSubdomainInOutput ==
  \A r \in Requests :
    merged[r].kind = "urlset" =>
      \A i \in 1..Len(merged[r].urls), subdomain \in subdomainDomains :
        ~Includes(merged[r].urls[i].loc, <<subdomain>>)

\* (C3) No two entries of the document built by buildSitemapXml have the
\* same normalized path (one trailing slash removed, root kept).
C3_DistinctNormalizedPaths ==
  \A r \in Requests :
    merged[r].kind = "urlset" =>
      \A i, j \in 1..Len(merged[r].urls) :
        i # j => normalizePath(PathOf(merged[r].urls[i].loc))
                   # normalizePath(PathOf(merged[r].urls[j].loc))

\* (C4) A returned urlset holds, for every protected path p, an entry of
\* normalized path p that is not under /city-by-urban/ and, unless p is
\* /city-by-urban, an entry of normalized path /city-by-urban followed by p.
C4_ProtectedPathsPresent ==
  \A r \in Requests :
    merged[r].kind = "urlset" =>
      \A k \in 1..Len(PROTECTED_PATHS) :
        LET p == PROTECTED_PATHS[k]
        IN  /\ \E i \in 1..Len(merged[r].urls) :
                 /\ normalizePath(PathOf(merged[r].urls[i].loc)) = p
                 /\ ~StartsWith(PathOf(merged[r].urls[i].loc), CITY_PREFIX \o <<"/">>)
            /\ p # CITY_PREFIX =>
                 \E i \in 1..Len(merged[r].urls) :
                   normalizePath(PathOf(merged[r].urls[i].loc)) = normalizePath(CITY_PREFIX \o p)

\* A returned urlset for sources that list no protected path at all.
C4_Witness ==
  /\ merged[1].kind = "urlset"
  /\ upstream["main"].urls = <<Entry(<<"https://", W, "/", "Zoo">>, NoMeta)>>
  /\ upstream["city"].urls = <<>>
  /\ upstream["careers"].urls = <<>>
  /\ HasLoc(merged[1], <<"https://", W, "/", "city-by-urban", "/", "christmas">>)

\* The tokens in ascending order of their UTF-16 code units ('#' < '/' < '?'
\* < upper case < lower case < non-ASCII).
CodeUnitOrder ==
  << "#", "/", "?", "Zoo", "all-sites", "bookings", "cafe\\u0301", "caf\\u00E9",
     "careers.urbanpubsandbars.com", "christmas", "city-by-urban",
     "city.urbanpubsandbars.com", "contact", "fleets", "http://", "https://",
     "other.example", "private-hire", "urbanpubsandbars.com", "venues", "whats-on",
     "work-with-us", "www.urbanpubsandbars.com" >>

CodeUnitRank(t) == CHOOSE i \in 1..Len(CodeUnitOrder) : CodeUnitOrder[i] = t

\* a < b in the lexicographic order of the code units.
RECURSIVE CodeUnitLess(_, _)
CodeUnitLess(a, b) ==
  IF b = <<>> THEN FALSE
  ELSE IF a = <<>> THEN TRUE
  ELSE IF Head(a) = Head(b) THEN CodeUnitLess(Tail(a), Tail(b))
  ELSE CodeUnitRank(Head(a)) < CodeUnitRank(Head(b))

\* buildSitemapXml has returned a urlset for a short list.
BuiltUrlset == buildIn.called /\ ~IsBulk(buildIn) /\ buildOut.kind = "urlset"

\* (C5, as claimed) The entries of the urlset emitted by buildSitemapXml are
\* in strictly ascending lexicographic order of their location strings.
C5_StrictlyAscendingLexicographic ==
  BuiltUrlset =>
    \A i \in 1..(Len(buildOut.urls) - 1) :
      CodeUnitLess(buildOut.urls[i].loc, buildOut.urls[i + 1].loc)

\* (C5, amended) The entries of the urlset emitted by buildSitemapXml are in
\* ascending order of localeCompare (no entry compares greater than its
\* successor) and their location strings are pairwise distinct.
C5_AscendingByLocaleCompare ==
  BuiltUrlset =>
    /\ \A i \in 1..(Len(buildOut.urls) - 1) :
         localeCompare(buildOut.urls[i].loc, buildOut.urls[i + 1].loc) <= 0
    /\ \A i, j \in 1..Len(buildOut.urls) :
         i # j => buildOut.urls[i].loc # buildOut.urls[j].loc

\* buildSitemapXml has reordered a list given out of order.
C5_Witness ==
  /\ BuiltUrlset
  /\ buildIn.urls = <<Entry(<<"https://", W, "/", "Zoo">>, NoMeta),
                      Entry(<<"https://", W, "/", "venues">>, NoMeta)>>
  /\ buildOut.urls = <<Entry(<<"https://", W, "/", "venues">>, NoMeta),
                       Entry(<<"https://", W, "/", "Zoo">>, NoMeta)>>

\* (C6) If the transformed input holds an entry of path P outside
\* /city-by-urban and an entry of path /city-by-urban followed by P, and P is
\* neither protected nor matches a protected pattern, the returned document
\* holds the /city-by-urban entry and no entry of path P.
C6_DedupConvergence ==
  \A r \in Requests :
    merged[r].kind = "urlset" =>
      LET all == CollectAll(settled[r])
      IN  \A i, j \in 1..Len(all) :
            LET P == PathOf(all[i].loc)
            IN  ( /\ ~StartsWith(P, CITY_PREFIX)
                  /\ PathOf(all[j].loc) = CITY_PREFIX \o P
                  /\ ~isProtectedPath(P)
                  /\ ~matchesProtectedPattern(P) )
                => /\ \E k \in 1..Len(merged[r].urls) :
                        PathOf(merged[r].urls[k].loc) = CITY_PREFIX \o P
                   /\ ~\E k \in 1..Len(merged[r].urls) : PathOf(merged[r].urls[k].loc) = P

\* Exactly one fetchSitemap of request r was rejected and the other two
\* returned at least one entry, and generateMergedSitemap has ended.
OneSourceFailed(r) ==
  /\ AllSettled(r)
  /\ pc[r] # "fetching"
  /\ Cardinality({ s \in SourceNames : settled[r][s].status = "rejected" }) = 1
  /\ \A s \in SourceNames :
       settled[r][s].status = "fulfilled" => Len(settled[r][s].value) >= 1

C8_AllFailedIs503 ==
  \A r \in Requests :
    ( /\ pc[r] # "fetching"
      /\ \A s \in SourceNames : settled[r][s].status = "rejected" )
    => /\ pc[r] = "done"
       /\ merged[r] = NoDoc
       /\ response[r] = [status |-> 503, body |-> NoDoc]

\* A request whose three fetches were rejected has been answered.
C8_Witness ==
  /\ \A s \in SourceNames : settled[1][s].status = "rejected"
  /\ pc[1] = "done"
  /\ response[1].status = 503

\* (C9) If validateUrlsAreWwwOnly leaves no valid entry of a non-empty
\* collected input, generateMergedSitemap fails and returns no document.
C9_NoValidEntriesIsError ==
  \A r \in Requests :
    ( /\ AllSettled(r)
      /\ pc[r] # "fetching"
      /\ Len(CollectAll(settled[r])) > 0
      /\ Len(validateUrlsAreWwwOnly(
               removeDuplicateMainSiteUrls(CollectAll(settled[r]), FALSE).urls).valid) = 0 )
    => merged[r] = NoDoc

C11_NormalizeIdempotent ==
  fnIn.op \in {"normalizePath", "normalizeUrl"} =>
    /\ Len(fnOut) >= 2 => fnOut[2] = fnOut[1]
    /\ (fnIn.op = "normalizePath" /\ fnIn.arg = <<"/">> /\ Len(fnOut) >= 1) => fnOut[1] = <<"/">>

\* (C12) No entry of a returned urlset has a location whose path ends with
\* a slash, except the root path.
C12_NoTrailingSlash ==
  \A r \in Requests :
    merged[r].kind = "urlset" =>
      \A i \in 1..Len(merged[r].urls) :
        \/ PathOf(merged[r].urls[i].loc) = <<"/">>
        \/ ~EndsWith(PathOf(merged[r].urls[i].loc), <<"/">>)

\* (C13) A step in which a cache operation of a /sitemap.xml request fails
\* (a get of the value or of the timestamp, a put after generation) makes the
\* request fall back to fresh generation or, when the document is already
\* generated, answer 200 with it; it never ends in an error response.
C13_CacheFailureFallsBack ==
  [][ \A r \in Requests :
        CacheThrows(r) =>
          \/ pc'[r] = "fetching"
          \/ /\ merged[r] # NoDoc
             /\ response'[r] = [status |-> 200, body |-> merged[r]] ]_vars

\* The webhook request carries a signature, its body parses as JSON, its
\* triggerType is site_publish and its signature is the HMAC-SHA256 of the
\* body under a secret that is configured.
Authentic ==
  /\ hook.signature # NoSignature
  /\ JsonParse(hook.body).ok
  /\ JsonParse(hook.body).triggerType = "site_publish"
  /\ \E k \in {env.secrets.main, env.secrets.city, env.secrets.careers} \ {""} :
       hook.signature \in {Signature(k, hook.body, FALSE), Signature(k, hook.body, TRUE)}

\* (C16) handleWebhookInvalidation deletes a cache key only for an authentic
\* request; every other request leaves both keys as they were and is
\* answered 401 or 400.
C16_OnlyAuthenticInvalidates ==
  (hook.pc # "none" /\ ~Authentic) =>
    /\ cache = [value |-> PreviousDoc, timestamp |-> 0]
    /\ hook.pc \in {"start", "done"}
    /\ hook.pc = "done" => hook.status \in {400, 401}

\* The webhook invalidation has completed.
Invalidated == hook.pc = "done" /\ hook.status = 200

\* (C14) Once a webhook invalidation has completed, every sitemap a request
\* is answered with, and every document a request writes to the cache, is
\* built from the sources as they are after the publish.
C14_FreshAfterInvalidation ==
  [][ Invalidated =>
        /\ \A r \in Concurrent :
             (response'[r] # response[r] /\ response'[r].status = 200) =>
               response'[r].body = DocOf(NewWorld)
        /\ cache'.value # cache.value => cache'.value = DocOf(NewWorld) ]_vars

\* (C15) At most one generateMergedSitemap is in flight at any time.
C15_SingleGeneration ==
  Cardinality({ r \in Concurrent : pc[r] = "fetching" }) <= 1

\* Request r is answered with the document it read from the cache.
ServedFromCache(r) ==
  pc[r] = "getTimestamp" /\ pc'[r] = "done" /\ response'[r].status = 200

\* (C17) A request that has read the timestamp key is served from the cache
\* exactly when the value it read and the timestamp are present and the
\* timestamp is less than 24 hours old, and otherwise regenerates; a
\* regenerated sitemap is answered with a new timestamp stored; and the
\* document stored at time 0 is not served from the cache at 24 hours or later.
C17_CacheServesOnlyFresh ==
  [][ \A r \in DOMAIN pc :
        /\ (pc[r] = "getTimestamp" /\ pc'[r] = "fetching") =>
             ~(cached[r] # NoDoc /\ cache.timestamp # NoTimestamp
                 /\ now - cache.timestamp < CACHE_TTL_MS)
        /\ ServedFromCache(r) =>
             /\ cached[r] # NoDoc
             /\ cache.timestamp # NoTimestamp
             /\ now - cache.timestamp < CACHE_TTL_MS
             /\ response'[r].body = cached[r]
        /\ (pc[r] = "putTimestamp" /\ response'[r].status = 200) =>
             /\ cache'.timestamp = now
             /\ response'[r].body = merged[r]
        /\ (ServedFromCache(r) /\ response'[r].body = PreviousDoc) =>
             now < CACHE_TTL_MS ]_vars

\* transformUrl has been applied to the location fnIn.arg.
Transformed == fnIn.op = "transformUrl" /\ fnOut # <<>>

\* (C18) For every mapping of the PATH_MAPPINGS the transformer is built from,
\* transformUrl rewrites a location on the mapping's subdomain, whose path is
\* not the root, to https://www.urbanpubsandbars.com/{pathPrefix}{path} with
\* the query and the fragment kept.
C18_UsesConfiguredMappings ==
  Transformed =>
    \A i \in 1..Len(SubdomainTransformer(env.PATH_MAPPINGS).mappings) :
      (/\ ParseUrl(fnIn.arg).hostname
            = SubdomainTransformer(env.PATH_MAPPINGS).mappings[i].subdomain
       /\ ParseUrl(fnIn.arg).pathname # <<"/">>) =>
        fnOut[1] = Returned(<<"https://", WWW_DOMAIN, "/",
                              SubdomainTransformer(env.PATH_MAPPINGS).mappings[i].pathPrefix>>
                            \o ParseUrl(fnIn.arg).pathname
                            \o ParseUrl(fnIn.arg).search \o ParseUrl(fnIn.arg).hash)

\* (C19) Under the deployed mappings, transformUrl rewrites the root of the
\* city and of the careers subdomain to /{pathPrefix} without a trailing
\* slash, with the query and the fragment kept.
C19_RootWithoutTrailingSlash ==
  (Transformed /\ env.PATH_MAPPINGS = DefaultMappings) =>
    \A i \in 1..Len(DefaultMappings) :
      (/\ ParseUrl(fnIn.arg).hostname = DefaultMappings[i][2]
       /\ ParseUrl(fnIn.arg).pathname = <<"/">>) =>
        fnOut[1] = Returned(<<"https://", WWW_DOMAIN, "/", DefaultMappings[i][1]>>
                            \o ParseUrl(fnIn.arg).search \o ParseUrl(fnIn.arg).hash)

\* removeDuplicateMainSiteUrls has been applied to fnIn.arg.urls.
Deduplicated == fnIn.op = "removeDuplicateMainSiteUrls" /\ fnOut # <<>>

\* The entry is under /city-by-urban/ and its path with that prefix stripped is `path`.
IsCityVersionOf(url, path) ==
  /\ ParseUrl(url.loc).ok
  /\ StartsWith(PathOf(url.loc), <<"/", "city-by-urban", "/">>)
  /\ SubSeq(PathOf(url.loc), 3, Len(PathOf(url.loc))) = path

\* The entry is one the function is said to remove from urls.
IsDuplicateMainSiteUrl(urls, url) ==
  /\ ParseUrl(url.loc).ok
  /\ ~StartsWith(PathOf(url.loc), <<"/", "city-by-urban", "/">>)
  /\ PathOf(url.loc) \notin {<<>>, <<"/">>}
  /\ \A i \in 1..Len(PROTECTED_PATHS) : PathOf(url.loc) # PROTECTED_PATHS[i]
  /\ \A i \in 1..Len(PROTECTED_PATH_PATTERNS) :
       ~Includes(PathOf(url.loc), PROTECTED_PATH_PATTERNS[i])
  /\ \E j \in 1..Len(urls) :
       /\ IsCityVersionOf(urls[j], PathOf(url.loc))
       /\ \A i \in 1..Len(PROTECTED_PATHS) : PathOf(url.loc) # PROTECTED_PATHS[i]

\* (C20) removeDuplicateMainSiteUrls returns the input without exactly the
\* entries that are not under /city-by-urban/, not the root, not on a
\* protected path, match no protected pattern and whose path is the stripped
\* path of a /city-by-urban/ entry of the input; when removals are tracked,
\* each removed entry is recorded, in order, with a /city-by-urban/ entry of
\* the input whose stripped path is the removed path.
C20_RemovesExactlyDuplicates ==
  Deduplicated =>
    /\ fnOut[1].urls
         = SelectSeq(fnIn.arg.urls, LAMBDA u : ~IsDuplicateMainSiteUrl(fnIn.arg.urls, u))
    /\ fnIn.arg.trackRemovals =>
         /\ [i \in 1..Len(fnOut[1].removedUrls) |-> fnOut[1].removedUrls[i].removed]
              = [i \in 1..Len(SelectSeq(fnIn.arg.urls,
                                        LAMBDA u : IsDuplicateMainSiteUrl(fnIn.arg.urls, u))) |->
                   SelectSeq(fnIn.arg.urls,
                             LAMBDA u : IsDuplicateMainSiteUrl(fnIn.arg.urls, u))[i].loc]
         /\ \A i \in 1..Len(fnOut[1].removedUrls) :
              \E j \in 1..Len(fnIn.arg.urls) :
                /\ fnIn.arg.urls[j].loc = fnOut[1].removedUrls[i].kept
                /\ IsCityVersionOf(fnIn.arg.urls[j], PathOf(fnOut[1].removedUrls[i].removed))

\* A tracked call has removed an entry and kept the city version next to it.
C20_Witness ==
  /\ Deduplicated
  /\ fnIn.arg.trackRemovals
  /\ Len(fnIn.arg.urls) = 2
  /\ Len(fnOut[1].urls) = 1
  /\ Len(fnOut[1].removedUrls) = 1
  /\ fnOut[1].removedUrls[1].kept = fnOut[1].urls[1].loc

\* (C21) removeDuplicateMainSiteUrls never removes an entry that came from
\* the careers source (its path is under /work-with-us) or from the city
\* source (its path is under /city-by-urban): each is as often in the result
\* as in the input.
C21_OnlyMainSiteEntriesRemoved ==
  Deduplicated =>
    \A i \in 1..Len(fnIn.arg.urls) :
      (/\ ParseUrl(fnIn.arg.urls[i].loc).ok
       /\ \/ StartsWith(PathOf(fnIn.arg.urls[i].loc), <<"/", "work-with-us">>)
          \/ StartsWith(PathOf(fnIn.arg.urls[i].loc), <<"/", "city-by-urban">>)) =>
        Cardinality({ j \in 1..Len(fnOut[1].urls) : fnOut[1].urls[j] = fnIn.arg.urls[i] })
          = Cardinality({ j \in 1..Len(fnIn.arg.urls) : fnIn.arg.urls[j] = fnIn.arg.urls[i] })

\* The entries of urls at the indices in S, in the order of urls.
Restrict(urls, S) ==
  [k \in 1..Cardinality(S) |->
     urls[CHOOSE i \in S : Cardinality({ j \in S : j <= i }) = k]]

\* How often the entry occurs in urls.
Count(urls, url) == Cardinality({ j \in 1..Len(urls) : urls[j] = url })

Validated == fnIn.op = "validateUrlsAreWwwOnly" /\ fnOut # <<>>

\* The hostname of the entry's location is the canonical domain.
OnCanonicalDomain(url) == ParseUrl(url.loc).ok /\ ParseUrl(url.loc).hostname = WWW_DOMAIN

\* (C23) validateUrlsAreWwwOnly returns as valid the input entries whose
\* hostname is www.urbanpubsandbars.com and as invalid all the others, both
\* in input order.
C23_PartitionByHostname ==
  Validated =>
    /\ fnOut[1].valid = SelectSeq(fnIn.arg, LAMBDA u : OnCanonicalDomain(u))
    /\ fnOut[1].invalid = SelectSeq(fnIn.arg, LAMBDA u : ~OnCanonicalDomain(u))

\* The list `valid` of generateMergedSitemap as validateUrlsAreWwwOnly returns it.
ValidBeforeCompletion(r) ==
  validateUrlsAreWwwOnly(removeDuplicateMainSiteUrls(CollectAll(settled[r]), FALSE).urls).valid

\* The entries of urls whose normalized path is p.
EntriesFor(urls, p) ==
  { urls[i] : i \in { j \in 1..Len(urls) : /\ ParseUrl(urls[j].loc).ok
                                           /\ normalizePath(PathOf(urls[j].loc)) = p } }

\* (C24) For every protected path p: when no valid entry has normalized path
\* p the returned urlset holds the synthesized entry for p, and when the
\* sources supplied valid entries for p one of them is in the returned urlset.
C24_CompletionOnlyWhenMissing ==
  \A r \in Requests :
    merged[r].kind = "urlset" =>
      \A k \in 1..Len(PROTECTED_PATHS) :
        IF EntriesFor(ValidBeforeCompletion(r), PROTECTED_PATHS[k]) = {}
        THEN \E i \in 1..Len(merged[r].urls) :
               merged[r].urls[i] = Entry(BASE_URL \o PROTECTED_PATHS[k], NoMeta)
        ELSE \E i \in 1..Len(merged[r].urls) :
               merged[r].urls[i] \in EntriesFor(ValidBeforeCompletion(r), PROTECTED_PATHS[k])

\* The parseSitemap call has ended.
ParseDone == parser.status \in {"returned", "thrown"}

\* The document parseSitemap was called with.
RootDocument == upstream["root.xml"].doc

\* The entries a referenced sitemap contributes: none when its fetch fails,
\* its status is not ok or it does not parse; the entries of its <url>
\* blocks; for an index, what its own references contribute, in order.
RECURSIVE Contribution(_, _)
Concatenation(locs, depth) ==
  LET RECURSIVE Upto(_)
      Upto(n) == IF n = 0 THEN <<>> ELSE Upto(n - 1) \o Contribution(locs[n], depth)
  IN  Upto(Len(locs))

Contribution(sitemapUrl, depth) ==
  IF depth = 0 \/ upstream[sitemapUrl].kind # "ok" THEN <<>>
  ELSE IF upstream[sitemapUrl].doc.kind = "urlset" THEN UrlBlocks(upstream[sitemapUrl].doc)
  ELSE IF upstream[sitemapUrl].doc.kind = "sitemapindex"
    THEN Concatenation(upstream[sitemapUrl].doc.locs, depth - 1)
  ELSE <<>>

\* (C25, as stated) A parseSitemap call on a sitemap index that has ended
\* has returned the concatenation, in index order, of what the referenced
\* sitemaps contribute.
C25_IndexConcatenatesReferenced ==
  (parser.status # "idle" /\ ParseDone /\ RootDocument.kind = "sitemapindex") =>
    /\ parser.status = "returned"
    /\ parser.result = Concatenation(RootDocument.locs, MaxDepth)

\* (C25) Where DOMParser is available, a parseSitemap call on a sitemap
\* index that has ended has returned the concatenation, in index order, of
\* what the referenced sitemaps contribute.
C25_IndexConcatenatesWithDomParser ==
  (parser.status # "idle" /\ parser.domParser /\ ParseDone
     /\ RootDocument.kind = "sitemapindex") =>
    /\ parser.status = "returned"
    /\ parser.result = Concatenation(RootDocument.locs, MaxDepth)

\* An index of b.xml, a.xml, b.xml where a.xml does not parse and b.xml
\* lists pages has been parsed with DOMParser: the pages of b.xml, twice.
C25_Witness ==
  /\ parser.domParser
  /\ parser.status = "returned"
  /\ RootDocument = SitemapIndex(<<"b.xml", "a.xml", "b.xml">>)
  /\ upstream["a.xml"] = FetchOk(MalformedUrlset(<<Page("christmas")>>))
  /\ upstream["b.xml"].doc.kind = "urlset"
  /\ Len(parser.result) = 4

\* (C26) Where DOMParser is available and reports a parsererror,
\* parseSitemap returns the entries of the <url> blocks the regex parser
\* extracts.
C26_MalformedFallsBackToRegex ==
  (parser.status # "idle" /\ parser.domParser /\ ParseDone
     /\ RootDocument.kind = "malformed") =>
    /\ parser.status = "returned"
    /\ parser.result = parseSitemapWithRegex(RootDocument)

\* (C28) Every parseSitemap call ends, whatever the documents reference.
C28_ParseTerminates == <>ParseDone

\* The entry with its location transformed as fetchSitemap transforms it.
TransformedEntry(url) ==
  [url EXCEPT !.loc = TransformUrl(url.loc, GetSourceDomain(url.loc)).loc]

\* (C27) When a source answers with a sitemap, its fetchSitemap is fulfilled
\* whatever happens to single entries, and every entry whose own
\* transformation succeeds and gives a location on the canonical domain is
\* among the entries the source hands to the merge.
C27_TransformFailureIsPerEntry ==
  \A r \in Requests : \A s \in SourceNames :
    (settled[r][s].status # "pending" /\ upstream[s].kind = "ok") =>
      /\ settled[r][s].status = "fulfilled"
      /\ \A i \in 1..Len(upstream[s].urls) :
           (/\ TransformUrl(upstream[s].urls[i].loc, GetSourceDomain(upstream[s].urls[i].loc)).ok
            /\ FetchKeeps(TransformedEntry(upstream[s].urls[i]), s)) =>
             \E j \in 1..Len(settled[r][s].value) :
               settled[r][s].value[j] = TransformedEntry(upstream[s].urls[i])

\* The step is one of request r.
StepOf(r) == pc'[r] # pc[r] \/ settled'[r] # settled[r]

====
